---- MODULE Spec2Model ----
(***************************************************************************)
(* A model of larix: the token-to-tree builder (src/src/util.rs), the      *)
(* Element model and its serializer (src/src/element.rs, src/src/item.rs). *)
(*                                                                         *)
(* Byte strings are sequences of one-character strings; the byte "FF"      *)
(* never occurs in well-formed UTF-8.  A String is a byte sequence that    *)
(* decoded successfully.                                                   *)
(***************************************************************************)
EXTENDS Integers, Sequences, FiniteSets, TLC

VARIABLES
    phase,      \* "read" (get_all_events), "build" (from_events), "done"
    events,     \* the events collected by get_all_events
    stack,      \* the call stack of from_events, innermost frame last
    result,     \* the Result of parse or what a traversal method returned,
                \* [tag |-> "None"] while running
    errAt,      \* history: position in events of the event that raised the error
    entry,      \* "parse": parse is called; "stringify": the caller built a tree;
                \* "traverse": the caller holds an Element
    tree,       \* the node list the caller built
    text,       \* the String stringify returned for tree
    visits,     \* history: visits[p] is how often from_events read events[p]
    calls       \* history: the most recursive from_events calls nested so far

vars == <<phase, events, stack, result, errAt, entry, tree, text, visits, calls>>

treeVars == <<entry, tree, text>>

\* Longest event sequence the reader delivers.
MaxEvents == 4

-----------------------------------------------------------------------------
(* Events (quick_xml::events::Event) as from_events reads them.            *)

InvalidByte == "FF"

LeafKinds == {"Text", "Comment", "DocType", "CData", "Decl", "PI"}

StartEvent(name, attrs) == [kind |-> "Start", data |-> name, attrs |-> attrs]
EmptyEvent(name, attrs) == [kind |-> "Empty", data |-> name, attrs |-> attrs]
EndEvent(name) == [kind |-> "End", data |-> name, attrs |-> <<>>]
LeafEvent(kind, payload) == [kind |-> kind, data |-> payload, attrs |-> <<>>]

\* One item of BytesStart::attributes(): Ok(Attribute{key, value}) or Err.
Attr(key, value) == [ok |-> TRUE, key |-> key, value |-> value]
MalformedAttr == [ok |-> FALSE, key |-> <<>>, value |-> <<>>]

\* The events the reader delivers in this model.
ReaderEvents ==
    {StartEvent(<<"a">>, <<>>), StartEvent(<<"b">>, <<>>),
     StartEvent(<<InvalidByte>>, <<>>),
     StartEvent(<<"a">>, <<Attr(<<"k">>, <<InvalidByte>>)>>),
     EndEvent(<<"a">>), EndEvent(<<"b">>), EndEvent(<<InvalidByte>>),
     EmptyEvent(<<"a">>, <<>>),
     EmptyEvent(<<"a">>, <<Attr(<<InvalidByte>>, <<"v">>)>>),
     LeafEvent("Text", <<"x">>), LeafEvent("Text", <<InvalidByte>>)}

-----------------------------------------------------------------------------
(* Decoding.                                                               *)

\* A lossy decoding, never an Err: a byte that is not UTF-8 becomes "?".
u8_to_string_lossy(u8) ==
    [ok |-> TRUE,
     val |-> [j \in 1..Len(u8) |-> IF u8[j] = InvalidByte THEN "?" ELSE u8[j]]]

\* String::from_utf8: Err when the bytes are not UTF-8.
u8_to_string(u8) ==
    IF \E j \in 1..Len(u8) : u8[j] = InvalidByte
    THEN [ok |-> FALSE, val |-> <<>>]
    ELSE [ok |-> TRUE, val |-> u8]

qname_to_string(qname) == u8_to_string(qname)

get_name(start) == qname_to_string(start.data)

\* HashMap::insert: the key's previous value is overwritten.
MapInsert(m, k, v) ==
    [x \in (DOMAIN m) \cup {k} |-> IF x = k THEN v ELSE m[x]]

EmptyMap == [x \in {} |-> <<>>]

\* The for loop of get_attributes over the attributes that parsed, in order;
\* `?` returns the first decoding error.
RECURSIVE InsertAll(_, _)
InsertAll(attrs, m) ==
    IF attrs = <<>> THEN [ok |-> TRUE, val |-> m]
    ELSE LET key == qname_to_string(Head(attrs).key)
             value == u8_to_string(Head(attrs).value)
         IN  IF ~key.ok THEN [ok |-> FALSE, val |-> EmptyMap]
             ELSE IF ~value.ok THEN [ok |-> FALSE, val |-> EmptyMap]
             ELSE InsertAll(Tail(attrs), MapInsert(m, key.val, value.val))

\* filter_map keeps the attributes that are Ok and drops the others.
get_attributes(start) ==
    InsertAll(SelectSeq(start.attrs, LAMBDA a : a.ok), EmptyMap)

-----------------------------------------------------------------------------
(* Items (Item, Element) and Results.                                      *)

LeafItem(kind, str) == [kind |-> kind, data |-> str]

ElementItem(name, attributes, self_closing, children) ==
    [kind |-> "Element", name |-> name, attributes |-> attributes,
     self_closing |-> self_closing, children |-> children]

\* EmptyEventItem with the flag left false.
EmptyEventItemNotClosing(name, attributes) ==
    ElementItem(name, attributes, FALSE, <<>>)

\* The Element pushed for an Empty event.
EmptyEventItem(name, attributes) == ElementItem(name, attributes, TRUE, <<>>)

\* The Element pushed for a Start event once its children are built.
StartEventItem(name, attributes, el_children) ==
    ElementItem(name, attributes, FALSE, el_children)

\* Push at the front of the list.
PushFront(children, item) == <<item>> \o children

\* children.push(item)
Push(children, item) == Append(children, item)

None == [tag |-> "None"]
Ok(items) == [tag |-> "Ok", items |-> items]
NonDecodable == [tag |-> "NonDecodable"]
UnmatchedEndTag(found) == [tag |-> "UnmatchedEndTag", found |-> found]
MismatchedEndTag(expected, found) ==
    [tag |-> "MismatchedEndTag", expected |-> expected, found |-> found]
\* An Err of the reader, passed on by get_all_events.
ReaderError == [tag |-> "ReaderError"]
\* A panic: no Result is returned.
Panic == [tag |-> "Panic"]

IsErr(r) == r.tag \in {"NonDecodable", "UnmatchedEndTag", "MismatchedEndTag", "ReaderError"}

-----------------------------------------------------------------------------
(* Frames: one call of from_events.  i is the code's 0-based index, so the  *)
(* event under it is ev[i + 1].  mode is "scan" in the outer while loop,    *)
(* "match" in the loop that looks for the End of the Start at index start,  *)
(* "call" while the recursive from_events runs.  off is history: ev[j] is   *)
(* events[off + j].                                                         *)

Frame(ev, off) ==
    [ev |-> ev, i |-> 0, children |-> <<>>, mode |-> "scan",
     name |-> <<>>, attributes |-> EmptyMap, names |-> <<>>,
     nested_events |-> <<>>, start |-> 0, off |-> off]

Top == stack[Len(stack)]
Cur == Top.ev[Top.i + 1]
Pos == Top.off + Top.i + 1

SetTop(f) == [stack EXCEPT ![Len(stack)] = f]

Scanning ==
    /\ phase = "build"
    /\ stack # <<>>
    /\ Top.mode = "scan"
    /\ Top.i < Len(Top.ev)

Matching ==
    /\ phase = "build"
    /\ stack # <<>>
    /\ Top.mode = "match"

\* return Err(..): every caller passes it on with `?`.
Fail(err, at) ==
    /\ result' = err
    /\ errAt' = at
    /\ stack' = <<>>
    /\ phase' = "done"
    /\ UNCHANGED <<events, treeVars, calls>>

Continue(f) ==
    /\ stack' = SetTop(f)
    /\ UNCHANGED <<phase, events, result, errAt, treeVars, calls>>

\* events[p] is read once more.
Examine(p) == visits' = [visits EXCEPT ![p] = @ + 1]

-----------------------------------------------------------------------------
(* The serializer: Display for Item and for Element, stringify.  A String  *)
(* is a sequence of characters.  The iteration order of a HashMap is not   *)
(* specified: an Element is rendered once for every order of its keys, and *)
(* the operators below give the set of Strings the code may return.        *)

\* The orders in which `for attr in &element.attributes` may visit the keys.
KeyOrders(attributes) ==
    LET keys == DOMAIN attributes
    IN  {o \in [1..Cardinality(keys) -> keys] :
            \A i, j \in 1..Cardinality(keys) : i # j => o[i] # o[j]}

\* attributes.push_str(&format!(r#" {}="{}""#, attr.0, attr.1)) for the keys
\* in the given order.
RECURSIVE AttributesString(_, _)
AttributesString(attributes, order) ==
    IF order = <<>> THEN <<>>
    ELSE <<" ">> \o Head(order) \o <<"=", "\"">> \o attributes[Head(order)]
            \o <<"\"">> \o AttributesString(attributes, Tail(order))

\* format!("<{}{}>", element.name, attributes)
get_start_tag(element, order) ==
    <<"<">> \o element.name \o AttributesString(element.attributes, order) \o <<">">>

\* get_end_tag without the slash.
get_end_tag_no_slash(element) == <<"<">> \o element.name \o <<">">>

\* format!("</{}>", element.name)
get_end_tag(element) == <<"<", "/">> \o element.name \o <<">">>

\* str.insert_str(idx, string)
insert_str(str, idx, string) ==
    SubSeq(str, 1, idx) \o string \o SubSeq(str, idx + 1, Len(str))

RECURSIVE stringify(_)

\* Display for Element
ElementToString(element) ==
    IF element.self_closing
    THEN {insert_str(get_start_tag(element, order),
                     Len(get_start_tag(element, order)) - 1, <<" ", "/">>) :
            order \in KeyOrders(element.attributes)}
    ELSE {get_start_tag(element, order) \o inner \o get_end_tag(element) :
            order \in KeyOrders(element.attributes),
            inner \in stringify(element.children)}

\* Display for Item
ItemToString(item) ==
    CASE item.kind = "Element" -> ElementToString(item)
      [] item.kind = "Text" -> {item.data}
      [] item.kind = "Comment" ->
            {<<"<", "!", "-", "-">> \o item.data \o <<"-", "-", ">">>}
      [] item.kind = "DocType" ->
            {<<"<", "!", "D", "O", "C", "T", "Y", "P", "E", " ">> \o item.data \o <<">">>}
      [] item.kind = "Decl" -> {<<"<", "?">> \o item.data \o <<"?", ">">>}
      [] item.kind = "CData" ->
            {<<"<", "!", "[", "C", "D", "A", "T", "A", "[">> \o item.data \o <<"]", "]", ">">>}
      [] item.kind = "PI" -> {<<"<", "?">> \o item.data \o <<"?", ">">>}

\* result.push_str(&item.to_string()) for each item
stringify(xml) ==
    IF xml = <<>> THEN {<<>>}
    ELSE {head \o rest : head \in ItemToString(Head(xml)),
                         rest \in stringify(Tail(xml))}

-----------------------------------------------------------------------------
(* The trees a caller can build: every field of Element and every variant  *)
(* of Item is public.                                                      *)

\* Most nodes in a tree the caller builds.
MaxNodes == 2

TreeLeaves ==
    {LeafItem(kind, <<"x">>) : kind \in LeafKinds \ {"Decl"}}
    \cup {LeafItem("Decl", <<"x", "m", "l">>)}

TreeAttributes ==
    {EmptyMap,
     [key \in {<<"k">>} |-> <<"v">>],
     [key \in {<<"k">>, <<"j">>} |-> IF key = <<"k">> THEN <<"v">> ELSE <<"w">>]}

RECURSIVE ForestsOfSize(_)
\* The items of n nodes: a leaf, or an Element and its descendants.
ItemsOfSize(n) ==
    (IF n = 1 THEN TreeLeaves ELSE {})
    \cup {ElementItem(<<"a">>, attributes, self_closing, children) :
            attributes \in TreeAttributes, self_closing \in BOOLEAN,
            children \in ForestsOfSize(n - 1)}

\* The node lists of n nodes in all.
ForestsOfSize(n) ==
    IF n = 0 THEN {<<>>}
    ELSE UNION {{<<item>> \o rest : item \in ItemsOfSize(k),
                                    rest \in ForestsOfSize(n - k)} : k \in 1..n}

\* The caller built a tree.
InitTree ==
    /\ phase = "tree"
    /\ events = <<>>
    /\ stack = <<>>
    /\ result = None
    /\ errAt = 0
    /\ entry = "stringify"
    /\ tree \in UNION {ForestsOfSize(n) : n \in 0..MaxNodes}
    /\ text = <<>>
    /\ visits = <<>>
    /\ calls = 0

\* stringify(&tree)
Stringify ==
    /\ phase = "tree"
    /\ text' \in stringify(tree)
    /\ phase' = "text"
    /\ UNCHANGED <<events, stack, result, errAt, entry, tree, visits, calls>>

-----------------------------------------------------------------------------
(* The reader (quick_xml's Reader over a &str, with its default            *)
(* configuration) for the texts the serializer writes: what read_event     *)
(* and BytesStart::attributes() deliver.                                   *)

Quote == "\""

Whitespace == {" "}

StartsWith(str, pos, pattern) ==
    /\ pos + Len(pattern) - 1 <= Len(str)
    /\ SubSeq(str, pos, pos + Len(pattern) - 1) = pattern

\* The first index at or after pos where pattern starts, 0 when none.
Find(str, pos, pattern) ==
    LET hits == {i \in pos..Len(str) : StartsWith(str, i, pattern)}
    IN  IF hits = {} THEN 0 ELSE CHOOSE i \in hits : \A j \in hits : i <= j

\* The first index at or after pos of a character not in chars, Len + 1
\* when none.
SkipAll(str, pos, chars) ==
    LET rest == {i \in pos..Len(str) : str[i] \notin chars}
    IN  IF rest = {} THEN Len(str) + 1 ELSE CHOOSE i \in rest : \A j \in rest : i <= j

\* The first index at or after pos of a character in chars, Len + 1 when
\* none.
SkipTo(str, pos, chars) ==
    LET hits == {i \in pos..Len(str) : str[i] \in chars}
    IN  IF hits = {} THEN Len(str) + 1 ELSE CHOOSE i \in hits : \A j \in hits : i <= j

\* Attributes: key="value" pairs separated by whitespace.  A key that was
\* seen before is an Err and the iteration goes on; any other malformed
\* attribute is an Err that ends the iteration.
RECURSIVE ReadAttributes(_, _, _)
ReadAttributes(str, pos, seen) ==
    LET from == SkipAll(str, pos, Whitespace)
        keyEnd == SkipTo(str, from, Whitespace \cup {"="})
        key == SubSeq(str, from, keyEnd - 1)
        eq == SkipAll(str, keyEnd, Whitespace)
        open == SkipAll(str, eq + 1, Whitespace)
        close == Find(str, open + 1, <<str[open]>>)
    IN  IF from > Len(str) THEN <<>>
        ELSE IF eq > Len(str) \/ str[eq] # "=" THEN <<MalformedAttr>>
        ELSE IF open > Len(str) \/ str[open] \notin {Quote, "'"} THEN <<MalformedAttr>>
        ELSE IF close = 0 THEN <<MalformedAttr>>
        ELSE <<IF key \in seen THEN MalformedAttr
               ELSE Attr(key, SubSeq(str, open + 1, close - 1))>>
             \o ReadAttributes(str, close + 1, seen \cup {key})

\* The name of a tag: its content up to the first whitespace.
TagName(content) == SubSeq(content, 1, SkipTo(content, 1, Whitespace) - 1)

TagAttributes(content) ==
    ReadAttributes(content, SkipTo(content, 1, Whitespace), {})

\* The events of str from pos on, opened being the names of the open
\* Starts: ok is false when read_event returns an Err.
RECURSIVE ReadEvents(_, _, _)
ReadEvents(str, pos, opened) ==
    LET Then(event, next, names) ==
            LET rest == ReadEvents(str, next, names)
            IN  [ok |-> rest.ok, events |-> <<event>> \o rest.events]
        Failed == [ok |-> FALSE, events |-> <<>>]
        Delimited(kind, open, close) ==
            LET end == Find(str, pos + Len(open), close)
            IN  IF end = 0 THEN Failed
                ELSE Then(LeafEvent(kind, SubSeq(str, pos + Len(open), end - 1)),
                          end + Len(close), opened)
        gt == Find(str, pos, <<">">>)
        content == SubSeq(str, pos + 1, gt - 1)
    IN  IF pos > Len(str) THEN [ok |-> TRUE, events |-> <<>>]
        ELSE IF str[pos] # "<"
        THEN LET end == SkipTo(str, pos, {"<"})
             IN  Then(LeafEvent("Text", SubSeq(str, pos, end - 1)), end, opened)
        ELSE IF StartsWith(str, pos, <<"<", "!", "-", "-">>)
        THEN Delimited("Comment", <<"<", "!", "-", "-">>, <<"-", "-", ">">>)
        ELSE IF StartsWith(str, pos, <<"<", "!", "[", "C", "D", "A", "T", "A", "[">>)
        THEN Delimited("CData", <<"<", "!", "[", "C", "D", "A", "T", "A", "[">>,
                       <<"]", "]", ">">>)
        ELSE IF StartsWith(str, pos, <<"<", "!", "D", "O", "C", "T", "Y", "P", "E">>)
        THEN IF gt = 0 THEN Failed
             ELSE Then(LeafEvent("DocType",
                           SubSeq(str, SkipAll(str, pos + 9, Whitespace), gt - 1)),
                       gt + 1, opened)
        ELSE IF StartsWith(str, pos, <<"<", "?">>)
        THEN LET end == Find(str, pos + 2, <<"?", ">">>)
                 pi == SubSeq(str, pos + 2, end - 1)
                 decl == /\ StartsWith(pi, 1, <<"x", "m", "l">>)
                         /\ (Len(pi) = 3 \/ pi[4] \in Whitespace)
             IN  IF end = 0 THEN Failed
                 ELSE Then(LeafEvent(IF decl THEN "Decl" ELSE "PI", pi), end + 2, opened)
        ELSE IF gt = 0 THEN Failed
        ELSE IF StartsWith(str, pos, <<"<", "/">>)
        THEN LET name == SubSeq(str, pos + 2,
                                SkipTo(str, pos + 2, Whitespace \cup {">"}) - 1)
             IN  IF opened = <<>> \/ opened[Len(opened)] # name THEN Failed
                 ELSE Then(EndEvent(name), gt + 1, SubSeq(opened, 1, Len(opened) - 1))
        ELSE IF content # <<>> /\ content[Len(content)] = "/"
        THEN LET inner == SubSeq(content, 1, Len(content) - 1)
             IN  Then(EmptyEvent(TagName(inner), TagAttributes(inner)), gt + 1, opened)
        ELSE Then(StartEvent(TagName(content), TagAttributes(content)), gt + 1,
                  Append(opened, TagName(content)))

-----------------------------------------------------------------------------
(* get_all_events.                                                         *)

\* parse(value) is called.
InitParse ==
    /\ phase = "read"
    /\ events = <<>>
    /\ stack = <<>>
    /\ result = None
    /\ errAt = 0
    /\ entry = "parse"
    /\ tree = <<>>
    /\ text = <<>>
    /\ visits = <<>>
    /\ calls = 0

\* Ok(e) => events.push(e)
ReadEvent ==
    /\ phase = "read"
    /\ Len(events) < MaxEvents
    /\ \E e \in ReaderEvents : events' = Append(events, e)
    /\ visits' = Append(visits, 0)
    /\ UNCHANGED <<phase, stack, result, errAt, treeVars, calls>>

\* Err(err) => return Err(err)
ReadErr ==
    /\ phase = "read"
    /\ result' = ReaderError
    /\ phase' = "done"
    /\ UNCHANGED <<events, stack, errAt, treeVars, visits, calls>>

\* Ok(Event::Eof) => break; parse then calls from_events on all the events.
ReadEof ==
    /\ phase = "read"
    /\ phase' = "build"
    /\ stack' = <<Frame(events, 0)>>
    /\ UNCHANGED <<events, result, errAt, treeVars, visits, calls>>

\* parse(&text): get_all_events over the text stringify returned, then
\* from_events on all the events.
ParseText ==
    /\ phase = "text"
    /\ LET read == ReadEvents(text, 1, <<>>)
       IN  IF read.ok
           THEN /\ events' = read.events
                /\ stack' = <<Frame(read.events, 0)>>
                /\ phase' = "build"
                /\ UNCHANGED result
           ELSE /\ result' = ReaderError
                /\ phase' = "done"
                /\ UNCHANGED <<events, stack>>
    /\ visits' = [p \in 1..Len(events') |-> 0]
    /\ UNCHANGED <<errAt, treeVars, calls>>

-----------------------------------------------------------------------------
(* from_events.                                                            *)

\* Event::Text, Comment, DocType, CData, Decl, PI
ScanLeaf ==
    /\ Scanning
    /\ Cur.kind \in LeafKinds
    /\ Examine(Pos)
    /\ LET str_res == u8_to_string(Cur.data)
       IN  IF ~str_res.ok THEN Fail(NonDecodable, Pos)
           ELSE Continue([Top EXCEPT
                    !.children = Push(@, LeafItem(Cur.kind, str_res.val)),
                    !.i = @ + 1])

\* Event::Empty
ScanEmpty ==
    /\ Scanning
    /\ Cur.kind = "Empty"
    /\ Examine(Pos)
    /\ LET name_res == get_name(Cur)
           attr_res == get_attributes(Cur)
       IN  IF ~name_res.ok THEN Fail(NonDecodable, Pos)
           ELSE IF ~attr_res.ok THEN Fail(NonDecodable, Pos)
           ELSE Continue([Top EXCEPT
                    !.children = Push(@, EmptyEventItem(name_res.val, attr_res.val)),
                    !.i = @ + 1])

\* Event::Start, up to the loop
ScanStart ==
    /\ Scanning
    /\ Cur.kind = "Start"
    /\ Examine(Pos)
    /\ LET name_res == get_name(Cur)
           attr_res == get_attributes(Cur)
       IN  IF ~name_res.ok THEN Fail(NonDecodable, Pos)
           ELSE IF ~attr_res.ok THEN Fail(NonDecodable, Pos)
           ELSE Continue([Top EXCEPT
                    !.mode = "match",
                    !.name = name_res.val,
                    !.attributes = attr_res.val,
                    !.names = <<name_res.val>>,
                    !.nested_events = <<>>,
                    !.start = Top.i])

\* ScanEnd that skips an End whose name decodes.
ScanEndSkipped ==
    /\ Scanning
    /\ Cur.kind = "End"
    /\ Examine(Pos)
    /\ LET name_res == qname_to_string(Cur.data)
       IN  IF ~name_res.ok THEN Fail(NonDecodable, Pos)
           ELSE Continue([Top EXCEPT !.i = @ + 1])

\* Event::End in the outer loop
ScanEnd ==
    /\ Scanning
    /\ Cur.kind = "End"
    /\ Examine(Pos)
    /\ LET name_res == qname_to_string(Cur.data)
       IN  IF ~name_res.ok THEN Fail(NonDecodable, Pos)
           ELSE Fail(UnmatchedEndTag(name_res.val), Pos)

\* MatchNext that makes no recursive call for an Element without content:
\* the Element is pushed at once.
MatchNextNoCallWhenEmpty(f) ==
    IF f.names = <<>> /\ f.nested_events = <<>>
    THEN Continue([f EXCEPT
            !.children = Push(@, StartEventItem(f.name, f.attributes, <<>>)),
            !.mode = "scan",
            !.i = @ + 1])
    ELSE IF f.names = <<>>
    THEN /\ stack' = Append(SetTop([f EXCEPT !.mode = "call"]),
                            Frame(f.nested_events, f.off + f.start + 1))
         /\ calls' = IF Len(stack) > calls THEN Len(stack) ELSE calls
         /\ UNCHANGED <<phase, events, result, errAt, treeVars>>
    ELSE Continue([f EXCEPT !.nested_events = Append(@, f.ev[f.i + 1])])

\* The end of one iteration of the loop: break and call from_events on the
\* nested events when names is empty, else keep the event and go on.
MatchNext(f) ==
    IF f.names = <<>>
    THEN /\ stack' = Append(SetTop([f EXCEPT !.mode = "call"]),
                            Frame(f.nested_events, f.off + f.start + 1))
         /\ calls' = IF Len(stack) > calls THEN Len(stack) ELSE calls
         /\ UNCHANGED <<phase, events, result, errAt, treeVars>>
    ELSE Continue([f EXCEPT !.nested_events = Append(@, f.ev[f.i + 1])])

\* i += 1; events[i] is out of bounds: the index panics.
MatchPastEnd ==
    /\ Matching
    /\ Top.i + 1 >= Len(Top.ev)
    /\ result' = Panic
    /\ errAt' = Pos + 1
    /\ stack' = <<>>
    /\ phase' = "done"
    /\ UNCHANGED <<events, treeVars, visits, calls>>

\* MatchStart that does not push the name of the Start.
MatchStartUncounted ==
    /\ Matching
    /\ Top.i + 1 < Len(Top.ev)
    /\ Examine(Pos + 1)
    /\ LET f == [Top EXCEPT !.i = @ + 1]
           e == f.ev[f.i + 1]
           name_res == get_name(e)
       IN  /\ e.kind = "Start"
           /\ IF ~name_res.ok THEN Fail(NonDecodable, Pos + 1)
              ELSE MatchNext(f)

\* i += 1; events[i] is Event::Start
MatchStart ==
    /\ Matching
    /\ Top.i + 1 < Len(Top.ev)
    /\ Examine(Pos + 1)
    /\ LET f == [Top EXCEPT !.i = @ + 1]
           e == f.ev[f.i + 1]
           name_res == get_name(e)
       IN  /\ e.kind = "Start"
           /\ IF ~name_res.ok THEN Fail(NonDecodable, Pos + 1)
              ELSE MatchNext([f EXCEPT !.names = Append(@, name_res.val)])

\* PopName that pops without comparing the names.
PopNameUnchecked(names, end_name) ==
    IF names = <<>>
    THEN [err |-> UnmatchedEndTag(end_name), names |-> names]
    ELSE [err |-> None, names |-> SubSeq(names, 1, Len(names) - 1)]

\* PopName with expected and found exchanged.
PopNameSwapped(names, end_name) ==
    IF names = <<>>
    THEN [err |-> UnmatchedEndTag(end_name), names |-> names]
    ELSE LET start_name == names[Len(names)]
         IN  IF start_name # end_name
             THEN [err |-> MismatchedEndTag(end_name, start_name), names |-> names]
             ELSE [err |-> None, names |-> SubSeq(names, 1, Len(names) - 1)]

\* names.pop() against the End's name: the error to return, or None and
\* the names left.
PopName(names, end_name) ==
    IF names = <<>>
    THEN [err |-> UnmatchedEndTag(end_name), names |-> names]
    ELSE LET start_name == names[Len(names)]
         IN  IF start_name # end_name
             THEN [err |-> MismatchedEndTag(start_name, end_name), names |-> names]
             ELSE [err |-> None, names |-> SubSeq(names, 1, Len(names) - 1)]

\* i += 1; events[i] is Event::End
MatchEnd ==
    /\ Matching
    /\ Top.i + 1 < Len(Top.ev)
    /\ Examine(Pos + 1)
    /\ LET f == [Top EXCEPT !.i = @ + 1]
           e == f.ev[f.i + 1]
           end_name_res == qname_to_string(e.data)
           popped == PopName(f.names, end_name_res.val)
       IN  /\ e.kind = "End"
           /\ IF ~end_name_res.ok THEN Fail(NonDecodable, Pos + 1)
              ELSE IF popped.err # None THEN Fail(popped.err, Pos + 1)
              ELSE MatchNext([f EXCEPT !.names = popped.names])

\* i += 1; events[i] is anything else
MatchOther ==
    /\ Matching
    /\ Top.i + 1 < Len(Top.ev)
    /\ Examine(Pos + 1)
    /\ LET f == [Top EXCEPT !.i = @ + 1]
           e == f.ev[f.i + 1]
       IN  /\ e.kind \notin {"Start", "End"}
           /\ MatchNext(f)

\* A recursive call returns Ok(children): the Element is pushed, i += 1.
Return ==
    /\ phase = "build"
    /\ Len(stack) > 1
    /\ Top.mode = "scan"
    /\ Top.i >= Len(Top.ev)
    /\ LET caller == stack[Len(stack) - 1]
           el == StartEventItem(caller.name, caller.attributes, Top.children)
       IN  stack' = [SubSeq(stack, 1, Len(stack) - 1) EXCEPT ![Len(stack) - 1] =
                        [caller EXCEPT !.children = Push(@, el),
                                       !.mode = "scan",
                                       !.i = @ + 1]]
    /\ UNCHANGED <<phase, events, result, errAt, treeVars, visits, calls>>

\* The outermost call returns Ok(children).
Finish ==
    /\ phase = "build"
    /\ Len(stack) = 1
    /\ Top.mode = "scan"
    /\ Top.i >= Len(Top.ev)
    /\ result' = Ok(Top.children)
    /\ stack' = <<>>
    /\ phase' = "done"
    /\ UNCHANGED <<events, errAt, treeVars, visits, calls>>

-----------------------------------------------------------------------------
(* Spec: parse, the reader delivering any events.                          *)

Init == InitParse

Next ==
    \/ ReadEvent
    \/ ReadErr
    \/ ReadEof
    \/ ScanLeaf
    \/ ScanEmpty
    \/ ScanStart
    \/ ScanEnd
    \/ MatchPastEnd
    \/ MatchStart
    \/ MatchEnd
    \/ MatchOther
    \/ Return
    \/ Finish

Spec == Init /\ [][Next]_vars

(* SpecTree: the caller builds a tree and serializes it.                   *)

NextTree == Stringify

SpecTree == InitTree /\ [][NextTree]_vars

(* SpecRoundTrip: the caller builds a tree, serializes it and parses the   *)
(* text.  The reader checks the names of the End tags itself and the       *)
(* serializer closes every Element it opens, so that from_events meets no  *)
(* End in its outer loop and never runs past the last event here.          *)

NextRoundTrip ==
    \/ Stringify
    \/ ParseText
    \/ ScanLeaf
    \/ ScanEmpty
    \/ ScanStart
    \/ MatchStart
    \/ MatchEnd
    \/ MatchOther
    \/ Return
    \/ Finish

SpecRoundTrip == InitTree /\ [][NextRoundTrip]_vars

-----------------------------------------------------------------------------
(* SpecText: parse is called on the text of one tag, written with any      *)
(* attributes, well-formed or not.                                         *)

\* Most attributes written in the tag.
MaxAttrs == 2

\* An attribute as written: key="value", or key=value without the quotes.
Written(key, value, quoted) == [key |-> key, value |-> value, quoted |-> quoted]

WrittenAttributes ==
    {Written(<<"k">>, <<"v">>, TRUE), Written(<<"k">>, <<"w">>, TRUE),
     Written(<<"j">>, <<"v">>, TRUE), Written(<<"k">>, <<"v">>, FALSE)}

\* The attribute lists of a tag; an attribute without quotes stands last.
WrittenLists ==
    UNION {{list \in [1..n -> WrittenAttributes] :
                \A j \in 1..(n - 1) : list[j].quoted} : n \in 0..MaxAttrs}

RECURSIVE WriteAttributes(_)
WriteAttributes(list) ==
    IF list = <<>> THEN <<>>
    ELSE LET a == Head(list)
         IN  <<" ">> \o a.key \o <<"=">>
                \o (IF a.quoted THEN <<Quote>> \o a.value \o <<Quote>> ELSE a.value)
                \o WriteAttributes(Tail(list))

\* <a attrs />, <a attrs></a>, and <a attrs></b> which the reader refuses.
TagForms == {"empty", "element", "mismatched"}

TagText(list, form) ==
    <<"<", "a">> \o WriteAttributes(list)
        \o CASE form = "empty" -> <<" ", "/", ">">>
             [] form = "element" -> <<">", "<", "/", "a", ">">>
             [] form = "mismatched" -> <<">", "<", "/", "b", ">">>

\* parse(value) is called on the text of a tag.
InitText ==
    /\ phase = "text"
    /\ events = <<>>
    /\ stack = <<>>
    /\ result = None
    /\ errAt = 0
    /\ entry = "parse"
    /\ tree = <<>>
    /\ text \in {TagText(list, form) : list \in WrittenLists, form \in TagForms}
    /\ visits = <<>>
    /\ calls = 0

NextText ==
    \/ ParseText
    \/ ScanEmpty
    \/ ScanStart
    \/ MatchEnd
    \/ Return
    \/ Finish

SpecText == InitText /\ [][NextText]_vars

-----------------------------------------------------------------------------
(* SpecTraversal: the traversal methods of Element, called on an Element   *)
(* the caller holds.  A reference (&Item, &Element) into the tree is the   *)
(* path from that Element to the node: the indices of the children to      *)
(* follow, so that two equal nodes at two places are two references.       *)

\* Most nodes below the Element.
MaxDescendants == 3

\* Largest depth asked of get_decendants_at_depth.
MaxDepth == 4

TraversalLeaves ==
    {LeafItem(kind, <<"x">>) : kind \in LeafKinds} \cup {LeafItem("Text", <<"y">>)}

TraversalNames == {<<"a">>, <<"b">>}

RECURSIVE ChildrenOfSize(_)
\* The nodes of n nodes: a leaf, or an Element and its descendants.
NodesOfSize(n) ==
    (IF n = 1 THEN TraversalLeaves ELSE {})
    \cup {ElementItem(name, EmptyMap, FALSE, children) :
            name \in TraversalNames, children \in ChildrenOfSize(n - 1)}

\* The children lists of n nodes in all.
ChildrenOfSize(n) ==
    IF n = 0 THEN {<<>>}
    ELSE UNION {{<<item>> \o rest : item \in NodesOfSize(k),
                                    rest \in ChildrenOfSize(n - k)} : k \in 1..n}

\* The predicates handed to find_descendants: is an Element named a, is a
\* Text, is anything.
Predicates == {"element_a", "text", "any"}

\* predicate(item)
Holds(predicate, item) ==
    CASE predicate = "element_a" -> item.kind = "Element" /\ item.name = <<"a">>
      [] predicate = "text" -> item.kind = "Text"
      [] predicate = "any" -> TRUE

\* The references to the children of the Element at reference at.
ChildRefs(self, at) == [j \in 1..Len(self.children) |-> Append(at, j)]

\* find_descendants as a strict pre-order search.
RECURSIVE find_descendants_preorder(_, _, _)
find_descendants_preorder(self, at, predicate) ==
    LET Loop[j \in 0..Len(self.children)] ==
            IF j = 0 THEN <<>>
            ELSE Loop[j - 1]
                    \o (IF predicate \in Predicates /\ Holds(predicate, self.children[j])
                        THEN <<Append(at, j)>> ELSE <<>>)
                    \o (IF self.children[j].kind # "Element" THEN <<>>
                        ELSE find_descendants_preorder(self.children[j],
                                                       Append(at, j), predicate))
    IN  Loop[Len(self.children)]

\* find_descendants without the loop over the child Elements.
find_descendants_shallow(self, at, predicate) ==
    SelectSeq(ChildRefs(self, at),
              LAMBDA r : Holds(predicate, self.children[r[Len(r)]]))

\* Element::find_descendants
RECURSIVE find_descendants(_, _, _)
find_descendants(self, at, predicate) ==
    LET found == SelectSeq(ChildRefs(self, at),
                           LAMBDA r : Holds(predicate, self.children[r[Len(r)]]))
        Loop[j \in 0..Len(self.children)] ==
            IF j = 0 THEN found
            ELSE IF self.children[j].kind # "Element" THEN Loop[j - 1]
            ELSE Loop[j - 1]
                    \o find_descendants(self.children[j], Append(at, j), predicate)
    IN  Loop[Len(self.children)]

\* get_text_content that also takes the payload of a CData.
RECURSIVE get_text_content_with_cdata(_)
get_text_content_with_cdata(self) ==
    LET Loop[j \in 0..Len(self.children)] ==
            IF j = 0 THEN <<>>
            ELSE LET child == self.children[j]
                 IN  CASE child.kind \in {"Text", "CData"} -> Loop[j - 1] \o child.data
                       [] child.kind = "Element" ->
                            Loop[j - 1] \o get_text_content_with_cdata(child)
                       [] OTHER -> Loop[j - 1]
    IN  Loop[Len(self.children)]

\* Element::get_text_content
RECURSIVE get_text_content(_)
get_text_content(self) ==
    LET Loop[j \in 0..Len(self.children)] ==
            IF j = 0 THEN <<>>
            ELSE LET child == self.children[j]
                 IN  CASE child.kind = "Text" -> Loop[j - 1] \o child.data
                       [] child.kind = "Element" -> Loop[j - 1] \o get_text_content(child)
                       [] OTHER -> Loop[j - 1]
    IN  Loop[Len(self.children)]

\* get_child_elements without the let-else that skips the other children.
get_child_elements_unfiltered(self, at) == ChildRefs(self, at)

\* Element::get_child_elements
get_child_elements(self, at) ==
    SelectSeq(ChildRefs(self, at), LAMBDA r : self.children[r[Len(r)]].kind = "Element")

\* What get_decendants_at_depth gives: a Vec of references, or a panic.
Items(refs) == [panic |-> FALSE, items |-> refs]
Panicked == [panic |-> TRUE, items |-> <<>>]

\* get_decendants_at_depth that returns an empty Vec at depth 0.
RECURSIVE get_decendants_at_depth_from_zero(_, _, _)
get_decendants_at_depth_from_zero(self, at, depth) ==
    IF depth = 0 THEN Items(<<>>)
    ELSE IF depth = 1 THEN Items(ChildRefs(self, at))
    ELSE LET Collect[j \in 0..Len(self.children)] ==
                 IF j = 0 THEN Items(<<>>)
                 ELSE IF self.children[j].kind # "Element" THEN Collect[j - 1]
                 ELSE Items(Collect[j - 1].items
                        \o get_decendants_at_depth_from_zero(
                               self.children[j], Append(at, j), depth - 1).items)
         IN  Collect[Len(self.children)]

\* get_decendants_at_depth that keeps only the Elements at depth 1.
RECURSIVE get_decendants_at_depth_elements(_, _, _)
get_decendants_at_depth_elements(self, at, depth) ==
    IF depth = 0 THEN Panicked
    ELSE IF depth = 1 THEN Items(get_child_elements(self, at))
    ELSE LET Collect[j \in 0..Len(self.children)] ==
                 IF j = 0 THEN Items(<<>>)
                 ELSE IF self.children[j].kind # "Element" THEN Collect[j - 1]
                 ELSE Items(Collect[j - 1].items
                        \o get_decendants_at_depth_elements(
                               self.children[j], Append(at, j), depth - 1).items)
         IN  Collect[Len(self.children)]

\* get_decendants_at_depth that also keeps the nodes above the depth.
RECURSIVE get_decendants_at_depth_and_above(_, _, _)
get_decendants_at_depth_and_above(self, at, depth) ==
    IF depth = 0 THEN Panicked
    ELSE IF depth = 1 THEN Items(ChildRefs(self, at))
    ELSE LET Collect[j \in 0..Len(self.children)] ==
                 IF j = 0 THEN Items(ChildRefs(self, at))
                 ELSE IF self.children[j].kind # "Element" THEN Collect[j - 1]
                 ELSE Items(Collect[j - 1].items
                        \o get_decendants_at_depth_and_above(
                               self.children[j], Append(at, j), depth - 1).items)
         IN  Collect[Len(self.children)]

\* Element::get_decendants_at_depth: a panic in a nested call unwinds
\* through the callers.
RECURSIVE get_decendants_at_depth(_, _, _)
get_decendants_at_depth(self, at, depth) ==
    IF depth = 0 THEN Panicked
    ELSE IF depth = 1 THEN Items(ChildRefs(self, at))
    ELSE LET Collect[j \in 0..Len(self.children)] ==
                 IF j = 0 THEN Items(<<>>)
                 ELSE IF Collect[j - 1].panic THEN Panicked
                 ELSE IF self.children[j].kind # "Element" THEN Collect[j - 1]
                 ELSE LET curr == get_decendants_at_depth(
                                      self.children[j], Append(at, j), depth - 1)
                      IN  IF curr.panic THEN Panicked
                          ELSE Items(Collect[j - 1].items \o curr.items)
         IN  Collect[Len(self.children)]

\* A method was called with an argument and returned a value.
Call(method, argument, value) ==
    [tag |-> method, argument |-> argument, value |-> value]

\* The caller holds an Element.
InitElement ==
    /\ phase = "tree"
    /\ events = <<>>
    /\ stack = <<>>
    /\ result = None
    /\ errAt = 0
    /\ entry = "traverse"
    /\ tree \in {<<ElementItem(<<"e">>, EmptyMap, FALSE, children)>> :
                    children \in UNION {ChildrenOfSize(n) : n \in 0..MaxDescendants}}
    /\ text = <<>>
    /\ visits = <<>>
    /\ calls = 0

\* The caller holds the Element and has called no method yet.
Holding ==
    /\ phase = "tree"
    /\ entry = "traverse"

\* The method returns value.
Returns(method, argument, value) ==
    /\ result' = Call(method, argument, value)
    /\ phase' = "done"
    /\ UNCHANGED <<events, stack, errAt, treeVars, visits, calls>>

\* element.find_descendants(&predicate)
FindDescendants ==
    /\ Holding
    /\ \E predicate \in Predicates :
          Returns("find_descendants", predicate,
                  find_descendants(tree[1], <<>>, predicate))

\* element.get_text_content()
GetTextContent ==
    /\ Holding
    /\ Returns("get_text_content", <<>>, get_text_content(tree[1]))

\* element.get_child_elements()
GetChildElements ==
    /\ Holding
    /\ Returns("get_child_elements", <<>>, get_child_elements(tree[1], <<>>))

\* element.get_decendants_at_depth(depth)
GetDecendantsAtDepth ==
    /\ Holding
    /\ \E depth \in 0..MaxDepth :
          Returns("get_decendants_at_depth", depth,
                  get_decendants_at_depth(tree[1], <<>>, depth))

\* element.find_descendants(&|_| true), then
\* element.get_decendants_at_depth(depth) for every depth from 1.
DescendantsByDepth ==
    /\ Holding
    /\ Returns("descendants_by_depth", MaxDepth,
               [all |-> find_descendants(tree[1], <<>>, "any"),
                at_depth |-> [depth \in 1..MaxDepth |->
                                 get_decendants_at_depth(tree[1], <<>>, depth)]])

NextTraversal ==
    \/ FindDescendants
    \/ GetTextContent
    \/ GetChildElements
    \/ GetDecendantsAtDepth
    \/ DescendantsByDepth

SpecTraversal == InitElement /\ [][NextTraversal]_vars

-----------------------------------------------------------------------------
(* SpecNesting: parse, the reader delivering longer sequences of fewer     *)
(* events, so that Elements nest deeper.                                   *)

\* Longest event sequence the reader delivers here.
MaxNested == 6

NestingEvents ==
    {StartEvent(<<"a">>, <<>>), EndEvent(<<"a">>), EmptyEvent(<<"a">>, <<>>),
     LeafEvent("Text", <<"x">>)}

\* Ok(e) => events.push(e)
ReadNested ==
    /\ phase = "read"
    /\ Len(events) < MaxNested
    /\ \E e \in NestingEvents : events' = Append(events, e)
    /\ visits' = Append(visits, 0)
    /\ UNCHANGED <<phase, stack, result, errAt, treeVars, calls>>

NextNesting ==
    \/ ReadNested
    \/ ReadEof
    \/ ScanLeaf
    \/ ScanEmpty
    \/ ScanStart
    \/ ScanEnd
    \/ MatchPastEnd
    \/ MatchStart
    \/ MatchEnd
    \/ MatchOther
    \/ Return
    \/ Finish

SpecNesting == Init /\ [][NextNesting]_vars

-----------------------------------------------------------------------------
(* What the properties below are stated with: the events as a document.    *)

Last(s) == s[Len(s)]

Decodable(bytes) == \A j \in 1..Len(bytes) : bytes[j] # InvalidByte

\* The open names after event e.
OpenStep(open, e) ==
    IF e.kind = "Start" THEN Append(open, e.data)
    ELSE IF e.kind = "End" /\ open # <<>> THEN SubSeq(open, 1, Len(open) - 1)
    ELSE open

RECURSIVE OpenFold(_, _, _, _)
OpenFold(evs, j, p, open) ==
    IF j >= p THEN open ELSE OpenFold(evs, j + 1, p, OpenStep(open, evs[j]))

\* The names of the Starts of evs[1..p-1] that no End has closed yet,
\* innermost last.
OpenBefore(evs, p) == OpenFold(evs, 1, p, <<>>)

\* An event as a token: its kind and its name or payload.
Token(kind, data) == [kind |-> kind, data |-> data]

TokensOf(evs) == [j \in 1..Len(evs) |-> Token(evs[j].kind, evs[j].data)]

\* A node list back to tokens.
RECURSIVE Flatten(_)
FlattenItem(item) ==
    IF item.kind # "Element" THEN <<Token(item.kind, item.data)>>
    ELSE IF item.self_closing THEN <<Token("Empty", item.name)>>
    ELSE <<Token("Start", item.name)>> \o Flatten(item.children)
            \o <<Token("End", item.name)>>
Flatten(items) ==
    IF items = <<>> THEN <<>>
    ELSE FlattenItem(Head(items)) \o Flatten(Tail(items))

\* from_events ran and ended.
BuildEnded == phase = "done" /\ result.tag # "ReaderError"

\* No event before position p raised an error.
NothingRaisedBefore(p) == errAt \notin 1..(p - 1)

-----------------------------------------------------------------------------
\* C1: when the build succeeds, flattening the returned nodes (leaf -> its
\* token, self-closing Element -> Empty, other Element -> Start, children,
\* End) gives the events exactly, each once and in document order.
C1_FlattenIsInput ==
    result.tag = "Ok" => Flatten(result.items) = TokensOf(events)

\* A successful build of an Element that holds an Element that holds a leaf
\* or nothing: four events, nesting depth two.
C1_Witness ==
    /\ result.tag = "Ok"
    /\ Len(events) = 4
    /\ Len(result.items) = 1
    /\ result.items[1].kind = "Element"
    /\ Len(result.items[1].children) = 1
    /\ result.items[1].children[1].kind = "Element"
    /\ ~result.items[1].children[1].self_closing

\* C2: an End whose name (a name that decodes) differs from the name of the
\* innermost open Start, reached without an earlier event having raised an
\* error, makes the build fail with MismatchedEndTag{expected: that Start's
\* name, found: the End's name}, at every depth.
C2_MismatchedEnd ==
    BuildEnded =>
        \A p \in 1..Len(events) :
            LET open == OpenBefore(events, p)
            IN  (/\ events[p].kind = "End"
                 /\ Decodable(events[p].data)
                 /\ open # <<>>
                 /\ Last(open) # events[p].data
                 /\ NothingRaisedBefore(p))
                => /\ result = MismatchedEndTag(Last(open), events[p].data)
                   /\ errAt = p

\* A mismatched End met with two Starts open.
C2_Witness ==
    /\ BuildEnded
    /\ result.tag = "MismatchedEndTag"
    /\ errAt = 3
    /\ Len(OpenBefore(events, 3)) = 2
    /\ result.expected = events[2].data
    /\ result.expected # events[1].data

\* C3: an End met while no Start is open, reached without an earlier event
\* having raised an error, makes the build fail at that End, with
\* UnmatchedEndTag carrying the End's name when the name decodes; the End is
\* never skipped and the build never returns Ok.
C3_UnmatchedEnd ==
    BuildEnded =>
        \A p \in 1..Len(events) :
            (/\ events[p].kind = "End"
             /\ OpenBefore(events, p) = <<>>
             /\ NothingRaisedBefore(p))
            => /\ errAt = p
               /\ IsErr(result)
               /\ Decodable(events[p].data)
                    => result = UnmatchedEndTag(events[p].data)

\* An unmatched End that follows a complete Element.
C3_Witness ==
    /\ BuildEnded
    /\ result.tag = "UnmatchedEndTag"
    /\ errAt = 3
    /\ events[1].kind = "Start"
    /\ events[2].kind = "End"

\* C4: the build of any finite event sequence ends with a Result: a node
\* list or one of NonDecodable, UnmatchedEndTag, MismatchedEndTag; it never
\* panics, also when a Start has no End.
C4_NeverPanics ==
    BuildEnded =>
        result.tag \in {"Ok", "NonDecodable", "UnmatchedEndTag", "MismatchedEndTag"}

\* The build of a lone Start: the loop indexes past the last event.
C4_Witness ==
    /\ BuildEnded
    /\ result = Panic
    /\ Len(events) = 1

\* An event with a payload, a name, or a key or value of an attribute that
\* does not decode.
Undecodable(e) ==
    \/ ~Decodable(e.data)
    \/ \E j \in 1..Len(e.attrs) :
          e.attrs[j].ok /\ (~Decodable(e.attrs[j].key) \/ ~Decodable(e.attrs[j].value))

\* Every End closes the innermost open Start, of the same name, and no
\* Start stays open.
WellNested(evs) ==
    /\ OpenBefore(evs, Len(evs) + 1) = <<>>
    /\ \A p \in 1..Len(evs) :
          evs[p].kind = "End" =>
              /\ OpenBefore(evs, p) # <<>>
              /\ Last(OpenBefore(evs, p)) = evs[p].data

\* C5: when some event, at any depth, does not decode, the build returns an
\* error and no node list, and the error is NonDecodable when the events
\* are well-nested.
C5_UndecodableIsError ==
    (BuildEnded /\ \E p \in 1..Len(events) : Undecodable(events[p]))
    => /\ IsErr(result)
       /\ WellNested(events) => result = NonDecodable

\* An undecodable event two levels down in well-nested events.
C5_Witness ==
    /\ BuildEnded
    /\ result = NonDecodable
    /\ WellNested(events)
    /\ errAt = 2
    /\ events[1].kind = "Start"

\* C5, leaving out the builds that panic (see C4).
C5_UnlessPanic ==
    (BuildEnded /\ result # Panic /\ \E p \in 1..Len(events) : Undecodable(events[p]))
    => /\ IsErr(result)
       /\ WellNested(events) => result = NonDecodable

\* The self_closing flags of the Elements of a node list, in document order.
RECURSIVE ClosingFlags(_)
ClosingFlags(items) ==
    IF items = <<>> THEN <<>>
    ELSE LET item == Head(items)
         IN  (IF item.kind = "Element"
              THEN <<item.self_closing>> \o ClosingFlags(item.children)
              ELSE <<>>) \o ClosingFlags(Tail(items))

\* Every self-closing Element of the node list, at every depth, is childless.
RECURSIVE SelfClosingChildless(_)
SelfClosingChildless(items) ==
    \A j \in 1..Len(items) :
        items[j].kind = "Element" =>
            /\ items[j].self_closing => items[j].children = <<>>
            /\ SelfClosingChildless(items[j].children)

\* C7: in a returned tree the Element of an Empty event is self-closing and
\* childless and the Element of a Start event is not self-closing, at every
\* depth; so a self-closing Element has no children.
C7_SelfClosing ==
    result.tag = "Ok" =>
        LET tags == SelectSeq(events, LAMBDA e : e.kind \in {"Start", "Empty"})
        IN  /\ ClosingFlags(result.items) = [j \in 1..Len(tags) |-> tags[j].kind = "Empty"]
            /\ SelfClosingChildless(result.items)

\* A returned tree with an Element of an Empty event inside an Element of a
\* Start event.
C7_Witness ==
    /\ result.tag = "Ok"
    /\ Len(result.items) = 1
    /\ result.items[1].kind = "Element"
    /\ ~result.items[1].self_closing
    /\ Len(result.items[1].children) >= 1
    /\ result.items[1].children[1].kind = "Element"
    /\ result.items[1].children[1].self_closing

-----------------------------------------------------------------------------
\* stringify returned text for the tree the caller built.
Stringified == entry = "stringify" /\ phase # "tree"

Wrap(open, payload, close) == open \o payload \o close

\* The start tags the statement allows: the name, then every attribute
\* once as key="value" after a space, in any order.
StartTags(element) ==
    LET keys == DOMAIN element.attributes
        One(key) == <<" ">> \o key \o <<"=", "\"">> \o element.attributes[key] \o <<"\"">>
        Joined[n \in 0..Cardinality(keys)] ==
            IF n = 0 THEN {<<<<>>, {}>>}
            ELSE {<<pair[1] \o One(key), pair[2] \cup {key}>> :
                    pair \in Joined[n - 1], key \in keys} 
    IN  {Wrap(<<"<">>, element.name \o pair[1], <<">">>) :
            pair \in {q \in Joined[Cardinality(keys)] : q[2] = keys}}

RECURSIVE Renderings(_)
\* The renderings of one node as C8 states them; C8 says nothing of a
\* self-closing Element, which is rendered as the code renders it.
Rendering(item) ==
    CASE item.kind = "Text" -> {item.data}
      [] item.kind = "Comment" ->
            {Wrap(<<"<", "!", "-", "-">>, item.data, <<"-", "-", ">">>)}
      [] item.kind = "CData" ->
            {Wrap(<<"<", "!", "[", "C", "D", "A", "T", "A", "[">>, item.data, <<"]", "]", ">">>)}
      [] item.kind = "DocType" ->
            {Wrap(<<"<", "!", "D", "O", "C", "T", "Y", "P", "E", " ">>, item.data, <<">">>)}
      [] item.kind \in {"Decl", "PI"} ->
            {Wrap(<<"<", "?">>, item.data, <<"?", ">">>)}
      [] item.kind = "Element" /\ item.self_closing -> ElementToString(item)
      [] item.kind = "Element" /\ ~item.self_closing ->
            {Wrap(start, inner, <<"<", "/">> \o item.name \o <<">">>) :
                start \in StartTags(item), inner \in Renderings(item.children)}

\* The concatenations, in list order, of one rendering of each node.
Renderings(items) ==
    IF items = <<>> THEN {<<>>}
    ELSE {head \o rest : head \in Rendering(Head(items)),
                         rest \in Renderings(Tail(items))}

\* No Element of the node list, at any depth, has two attributes or more.
RECURSIVE FewAttributes(_)
FewAttributes(items) ==
    \A j \in 1..Len(items) :
        items[j].kind = "Element" =>
            /\ Cardinality(DOMAIN items[j].attributes) < 2
            /\ FewAttributes(items[j].children)

\* C8: stringify(nodes) is the concatenation in list order of the nodes'
\* renderings: Text raw, Comment <!--p-->, CData <![CDATA[p]]>, DocType
\* <!DOCTYPE p>, Decl and PI <?p?>, a non-self-closing Element its start
\* tag, stringify(children), </name>; without an Element of two attributes
\* or more there is one possible output.
C8_Stringify ==
    Stringified =>
        /\ text \in Renderings(tree)
        /\ FewAttributes(tree) => Renderings(tree) = {text}

\* The rendering of a non-self-closing Element with an attribute and a
\* Comment child.
C8_Witness ==
    /\ Stringified
    /\ Len(tree) = 1
    /\ tree[1].kind = "Element"
    /\ ~tree[1].self_closing
    /\ DOMAIN tree[1].attributes = {<<"k">>}
    /\ Len(tree[1].children) = 1
    /\ tree[1].children[1].kind = "Comment"
    /\ text = <<"<", "a", " ", "k", "=", "\"", "v", "\"", ">",
                "<", "!", "-", "-", "x", "-", "-", ">", "<", "/", "a", ">">>

\* C9: an Element is rendered self-closing, <name attrs />, exactly when
\* self_closing is true and it has no children; an Element with a child is
\* rendered as start tag, children, end tag whatever its flag.
C9_SelfCloseOnlyIfChildless ==
    (Stringified /\ Len(tree) = 1 /\ tree[1].kind = "Element") =>
        LET element == tree[1]
            closed == {insert_str(start, Len(start) - 1, <<" ", "/">>) :
                          start \in StartTags(element)}
            open == {Wrap(start, inner, <<"<", "/">> \o element.name \o <<">">>) :
                        start \in StartTags(element),
                        inner \in stringify(element.children)}
        IN  /\ text \in closed <=> (element.self_closing /\ element.children = <<>>)
            /\ element.children # <<>> => text \in open

-----------------------------------------------------------------------------
\* An error condition holds at event p: it does not decode, or it is an End
\* with no Start open, or an End of another name than the innermost open
\* Start.
ErrorCondition(evs, p) ==
    \/ Undecodable(evs[p])
    \/ /\ evs[p].kind = "End"
       /\ \/ OpenBefore(evs, p) = <<>>
          \/ Last(OpenBefore(evs, p)) # evs[p].data

\* The error that belongs to event p.
ErrorOf(evs, p) ==
    IF Undecodable(evs[p]) THEN NonDecodable
    ELSE IF OpenBefore(evs, p) = <<>> THEN UnmatchedEndTag(evs[p].data)
    ELSE MismatchedEndTag(Last(OpenBefore(evs, p)), evs[p].data)

\* C6: a failed build returns the error of the earliest event at which an
\* error condition holds, never the error of a later event.
C6_EarliestError ==
    (BuildEnded /\ IsErr(result)) =>
        /\ errAt \in 1..Len(events)
        /\ ErrorCondition(events, errAt)
        /\ result = ErrorOf(events, errAt)
        /\ \A q \in 1..(errAt - 1) : ~ErrorCondition(events, q)

\* An undecodable Start or End name, or an End that is unmatched or
\* mismatched: what the loop that looks for the matching End checks.
TagError(evs, p) ==
    /\ ErrorCondition(evs, p)
    /\ \/ evs[p].kind = "End"
       \/ evs[p].kind = "Start" /\ ~Decodable(evs[p].data)

\* An undecodable leaf payload, Empty name or attribute.
ContentError(evs, p) == ErrorCondition(evs, p) /\ ~TagError(evs, p)

\* C6 (amended): a failed build returns the error of the event that raised
\* it, at which an error condition holds, and no error condition holds at
\* an earlier event, except that a tag error (an undecodable Start or End
\* name, an unmatched or mismatched End) inside a top-level Element is
\* returned although events before it inside that Element have content
\* errors.
C6_ScanOrder ==
    (BuildEnded /\ IsErr(result)) =>
        /\ errAt \in 1..Len(events)
        /\ ErrorCondition(events, errAt)
        /\ result = ErrorOf(events, errAt)
        /\ \A q \in 1..(errAt - 1) :
              ErrorCondition(events, q) =>
                  /\ TagError(events, errAt)
                  /\ ContentError(events, q)
                  /\ \A r \in q..errAt : OpenBefore(events, r) # <<>>

\* A mismatched End returned although the Text before it, inside the same
\* Element, does not decode.
C6_Witness ==
    /\ BuildEnded
    /\ result.tag = "MismatchedEndTag"
    /\ errAt = 3
    /\ events[2].kind = "Text"
    /\ Undecodable(events[2])

-----------------------------------------------------------------------------
\* The same name, the same attributes and the same children, recursively.
RECURSIVE ContentEqual(_, _)
ContentEqual(x, y) ==
    IF x.kind = "Element" /\ y.kind = "Element"
    THEN /\ x.name = y.name
         /\ x.attributes = y.attributes
         /\ Len(x.children) = Len(y.children)
         /\ \A j \in 1..Len(x.children) : ContentEqual(x.children[j], y.children[j])
    ELSE x = y

\* The caller's tree was serialized and the text parsed again.
RoundTripEnded == entry = "stringify" /\ phase = "done"

\* C10: an Element with two attributes or more, serialized and parsed
\* again, gives an Element content-equal to it, whatever the order the
\* attributes were written in.
C10_RoundTrip ==
    (/\ RoundTripEnded
     /\ Len(tree) = 1
     /\ tree[1].kind = "Element"
     /\ Cardinality(DOMAIN tree[1].attributes) >= 2)
    => /\ result.tag = "Ok"
       /\ Len(result.items) = 1
       /\ ContentEqual(result.items[1], tree[1])
       /\ stringify(result.items) # {}

-----------------------------------------------------------------------------
\* The reader reported an error while the text was read: read_event
\* returned an Err, or attributes() returned an Err for an attribute.
ReaderReported ==
    \/ ~ReadEvents(text, 1, <<>>).ok
    \/ \E p \in 1..Len(events) :
          \E j \in 1..Len(events[p].attrs) : ~events[p].attrs[j].ok

\* parse was called on a text and ended.
ParseEnded == entry = "parse" /\ phase = "done"

\* C11: an error the reader reports, the error of a malformed attribute of
\* a Start or Empty tag included, is what parse returns; parse never returns
\* Ok with the offending attribute left out.
C11_ReaderErrorsReturned ==
    (ParseEnded /\ ReaderReported) => result = ReaderError

\* The value of the last occurrence of key in a written attribute list.
LastValue(list, key) ==
    LET at == {j \in 1..Len(list) : list[j].key = key}
    IN  list[CHOOSE j \in at : \A i \in at : i <= j].value

\* C17: the attributes of the Element built from a tag hold every key the
\* tag lists, once, and when a key is listed more than once its value is the
\* value of the last occurrence.
C17_LastWins ==
    \A list \in WrittenLists, form \in {"empty", "element"} :
        (/\ ParseEnded
         /\ \A j \in 1..Len(list) : list[j].quoted
         /\ text = TagText(list, form))
        => /\ result.tag = "Ok"
           /\ Len(result.items) = 1
           /\ DOMAIN result.items[1].attributes = {list[j].key : j \in 1..Len(list)}
           /\ \A key \in DOMAIN result.items[1].attributes :
                 result.items[1].attributes[key] = LastValue(list, key)

-----------------------------------------------------------------------------
(* What the traversal properties are stated with: the references into the  *)
(* tree of the Element and their document order.                           *)

\* The Element the caller holds.
Root == tree[1]

\* A traversal method was called and returned.
Called(method) == entry = "traverse" /\ phase = "done" /\ result.tag = method

\* The node a reference leads to.
RECURSIVE NodeAt(_, _)
NodeAt(element, ref) ==
    IF Len(ref) = 1 THEN element.children[ref[1]]
    ELSE NodeAt(element.children[ref[1]], Tail(ref))

\* The references to every node below element.
RECURSIVE Refs(_)
Refs(element) ==
    UNION {{<<j>>} \cup (IF element.children[j].kind = "Element"
                         THEN {<<j>> \o r : r \in Refs(element.children[j])}
                         ELSE {}) : j \in 1..Len(element.children)}

\* Document order: a node stands before its descendants and before the
\* next sibling and all that is below it.
Before(p, q) ==
    \E k \in 1..Len(q) :
        /\ \A i \in 1..(k - 1) : i <= Len(p) /\ p[i] = q[i]
        /\ (k > Len(p) \/ p[k] < q[k])

\* In document order, each reference once.
InOrder(refs) == \A i, j \in 1..Len(refs) : i < j => Before(refs[i], refs[j])

Range(refs) == {refs[j] : j \in 1..Len(refs)}

\* The references of a set, in document order.
Sorted(set) ==
    CHOOSE refs \in [1..Cardinality(set) -> set] : Range(refs) = set /\ InOrder(refs)

\* The results of find_descendants of the child Elements, one after the
\* other in child order.
RECURSIVE DeeperMatches(_, _, _)
DeeperMatches(element, upto, predicate) ==
    IF upto = 0 THEN <<>>
    ELSE DeeperMatches(element, upto - 1, predicate)
            \o (IF element.children[upto].kind = "Element"
                THEN find_descendants(element.children[upto], <<upto>>, predicate)
                ELSE <<>>)

\* C12: find_descendants returns the children that satisfy the predicate,
\* in child order, then the find_descendants result of each child Element,
\* in child order: every matching descendant once, a matching child before
\* every deeper match.
C12_FindDescendants ==
    Called("find_descendants") =>
        LET found == result.value
            predicate == result.argument
            matching == SelectSeq([j \in 1..Len(Root.children) |-> <<j>>],
                                  LAMBDA r : Holds(predicate, NodeAt(Root, r)))
        IN  /\ found = matching \o DeeperMatches(Root, Len(Root.children), predicate)
            /\ Range(found) = {r \in Refs(Root) : Holds(predicate, NodeAt(Root, r))}
            /\ Len(found) = Cardinality(Range(found))
            /\ \A i, j \in 1..Len(found) :
                  (Len(found[i]) = 1 /\ Len(found[j]) > 1) => i < j

\* The Elements named a of <e><b><a/></b><a/></e>: the child a comes before
\* the a inside the earlier sibling b, against document order.
C12_Witness ==
    /\ Called("find_descendants")
    /\ result.argument = "element_a"
    /\ result.value = << <<2>>, <<1, 1>> >>
    /\ ~InOrder(result.value)

\* C13: for a depth d >= 1 get_decendants_at_depth returns the nodes d
\* levels below the Element, of any variant, each once and in document
\* order; none when d is more than the height.
C13_DescendantsAtDepth ==
    (Called("get_decendants_at_depth") /\ result.argument >= 1) =>
        /\ ~result.value.panic
        /\ InOrder(result.value.items)
        /\ Range(result.value.items)
              = {r \in Refs(Root) : Len(r) = result.argument}

\* Depth 2 below a leaf child, which gives nothing, and an Element child,
\* which gives its child.
C13_Witness ==
    /\ Called("get_decendants_at_depth")
    /\ result.argument = 2
    /\ Len(Root.children) = 2
    /\ Root.children[1].kind = "Text"
    /\ result.value.items = << <<2, 1>> >>

\* C14: get_decendants_at_depth panics at depth 0 and at no depth >= 1: the
\* recursion stops at depth 1.
C14_PanicsAtZeroOnly ==
    Called("get_decendants_at_depth") =>
        (result.value.panic <=> result.argument = 0)

\* Depth 0 asked of an Element that has a child Element.
C14_Witness ==
    /\ Called("get_decendants_at_depth")
    /\ result.argument = 0
    /\ result.value.panic
    /\ Len(Root.children) >= 1
    /\ Root.children[1].kind = "Element"

\* The payloads of the nodes at refs, one after the other.
RECURSIVE Payloads(_, _)
Payloads(element, refs) ==
    IF refs = <<>> THEN <<>>
    ELSE NodeAt(element, Head(refs)).data \o Payloads(element, Tail(refs))

\* C15: get_text_content is the payloads of the Text nodes below the
\* Element, at any depth, in document order; no other node adds to it.
C15_TextContent ==
    Called("get_text_content") =>
        result.value = Payloads(Root,
            Sorted({r \in Refs(Root) : NodeAt(Root, r).kind = "Text"}))

\* <e><a>y</a>x</e>: the Text inside the child Element, then the Text that
\* follows that Element.
C15_Witness ==
    /\ Called("get_text_content")
    /\ Len(Root.children) = 2
    /\ Root.children[1].kind = "Element"
    /\ Root.children[1].children = <<LeafItem("Text", <<"y">>)>>
    /\ Root.children[2] = LeafItem("Text", <<"x">>)
    /\ result.value = <<"y", "x">>

\* C16: get_child_elements returns the children that are Elements, each
\* once and in child order, and nothing from deeper down.
C16_ChildElements ==
    Called("get_child_elements") =>
        /\ InOrder(result.value)
        /\ Range(result.value)
              = {r \in Refs(Root) : Len(r) = 1 /\ NodeAt(Root, r).kind = "Element"}

\* A leaf child that is skipped and a child Element whose own child
\* Element is not returned.
C16_Witness ==
    /\ Called("get_child_elements")
    /\ Len(Root.children) = 2
    /\ Root.children[1].kind = "Comment"
    /\ Root.children[2].kind = "Element"
    /\ Len(Root.children[2].children) = 1
    /\ Root.children[2].children[1].kind = "Element"
    /\ result.value = << <<2>> >>

-----------------------------------------------------------------------------
\* C18: the build returns Ok exactly for the event sequences that are
\* well-nested (every End closes the innermost open Start, of the same
\* name, and every Start is closed) and in which every event decodes.
C18_OkIffWellFormed ==
    BuildEnded =>
        (result.tag = "Ok" <=>
            /\ WellNested(events)
            /\ \A p \in 1..Len(events) : ~Undecodable(events[p]))

\* The Ok of an Element that holds an Empty and a Text.
C18_Witness ==
    /\ BuildEnded
    /\ result.tag = "Ok"
    /\ Len(events) = 4
    /\ events[1].kind = "Start"
    /\ events[2].kind = "Empty"
    /\ events[3].kind = "Text"

-----------------------------------------------------------------------------
\* The Starts open around event p: its nesting depth.
Depth(evs, p) == Len(OpenBefore(evs, p))

\* C19: during a build no event is read more often than a constant that
\* does not depend on the nesting depth: twice, once by the loop that looks
\* for the matching End and once by the call that builds the node.
C19_ConstantVisits ==
    \A p \in 1..Len(visits) : visits[p] <= 2

\* What holds in place of C19: during a build an event is read at most once
\* more than its nesting depth, and in a build that returns Ok exactly that
\* often, an End once less: once by the loop of every enclosing Element and
\* once by the call that builds its node.
C19_VisitsPerDepth ==
    /\ \A p \in 1..Len(visits) : visits[p] <= Depth(events, p) + 1
    /\ (phase = "done" /\ result.tag = "Ok") =>
          \A p \in 1..Len(visits) :
              visits[p] = IF events[p].kind = "End"
                          THEN Depth(events, p)
                          ELSE Depth(events, p) + 1

\* A Text two Elements deep, read three times in a build that returns Ok.
C19_Witness ==
    /\ phase = "done"
    /\ result.tag = "Ok"
    /\ Len(events) = 5
    /\ events[3].kind = "Text"
    /\ Depth(events, 3) = 2
    /\ visits[3] = 3

\* The deepest nesting of the events: the most Starts open at once.
RECURSIVE MaxNesting(_, _)
MaxNesting(evs, p) ==
    IF p = 0 THEN 0
    ELSE LET before == MaxNesting(evs, p - 1)
             here == Depth(evs, p + 1)
         IN  IF here > before THEN here ELSE before

\* C20: in a build that returns Ok the most recursive from_events calls
\* nested in one another is the deepest nesting of the events: one call for
\* every level of Start, none for an Empty or a leaf.
C20_CallsPerLevel ==
    (phase = "done" /\ entry = "parse" /\ result.tag = "Ok") =>
        calls = MaxNesting(events, Len(events))

\* Three Elements, one in the other, built with three nested calls.
C20_Witness ==
    /\ phase = "done"
    /\ result.tag = "Ok"
    /\ Len(events) = 6
    /\ MaxNesting(events, 6) = 3
    /\ calls = 3

-----------------------------------------------------------------------------
\* C21: find_descendants returns the nodes below the Element, at any depth,
\* that satisfy the predicate: each of them once and nothing else, never
\* the Element itself, so as many references as there are matching nodes.
C21_AllMatchingDescendants ==
    Called("find_descendants") =>
        LET matches == {r \in Refs(Root) : Holds(result.argument, NodeAt(Root, r))}
        IN  /\ \A r \in matches : \E j \in 1..Len(result.value) : result.value[j] = r
            /\ \A j \in 1..Len(result.value) : result.value[j] \in matches
            /\ \A i, j \in 1..Len(result.value) :
                  result.value[i] = result.value[j] => i = j
            /\ \A j \in 1..Len(result.value) : result.value[j] # <<>>
            /\ Len(result.value) = Cardinality(matches)

\* The two equal Texts of <e><a>x</a>x</e>, one a child and one deeper, are
\* both returned; the Element a, which is no Text, is not.
C21_Witness ==
    /\ Called("find_descendants")
    /\ result.argument = "text"
    /\ Len(Root.children) = 2
    /\ Root.children[1].kind = "Element"
    /\ Root.children[1].children = <<LeafItem("Text", <<"x">>)>>
    /\ Root.children[2] = LeafItem("Text", <<"x">>)
    /\ Len(result.value) = 2

-----------------------------------------------------------------------------
\* The nodes of element are at most height levels below it.
RECURSIVE Height(_)
Height(element) ==
    IF element.children = <<>> THEN 0
    ELSE LET below == {IF element.children[j].kind = "Element"
                       THEN Height(element.children[j]) ELSE 0 :
                          j \in 1..Len(element.children)}
         IN  1 + CHOOSE h \in below : \A other \in below : other <= h

\* The lengths of the lists at depths 1..d, added up.
RECURSIVE TotalLength(_, _)
TotalLength(lists, d) ==
    IF d = 0 THEN 0 ELSE Len(lists[d].items) + TotalLength(lists, d - 1)

\* C22: for an Element whose nodes are no deeper than the largest depth
\* that can be asked for, the lists get_decendants_at_depth gives for the
\* depths from 1 have no node in common, none holds a node twice, and
\* together they hold the nodes find_descendants gives for the predicate
\* that is always true, as often as it gives them.
C22_DepthsPartitionDescendants ==
    (Called("descendants_by_depth") /\ Height(Root) <= result.argument) =>
        LET all == result.value.all
            at_depth == result.value.at_depth
            depths == 1..result.argument
        IN  /\ \A d \in depths : ~at_depth[d].panic
            /\ \A d, e \in depths :
                  d # e => Range(at_depth[d].items) \cap Range(at_depth[e].items) = {}
            /\ \A d \in depths :
                  Len(at_depth[d].items) = Cardinality(Range(at_depth[d].items))
            /\ UNION {Range(at_depth[d].items) : d \in depths} = Range(all)
            /\ TotalLength(at_depth, result.argument) = Len(all)
            /\ Len(all) = Cardinality(Range(all))

\* <e><a><b>x</b></a></e>: one node at each of the depths 1, 2 and 3, none
\* at depth 4, the three nodes find_descendants gives.
C22_Witness ==
    /\ Called("descendants_by_depth")
    /\ Height(Root) = 3
    /\ Len(result.value.at_depth[1].items) = 1
    /\ Len(result.value.at_depth[2].items) = 1
    /\ Len(result.value.at_depth[3].items) = 1
    /\ Len(result.value.at_depth[4].items) = 0
    /\ Len(result.value.all) = 3

-----------------------------------------------------------------------------
\* The slices the recursive calls in progress were given are well-nested.
NestedSlicesWellNested ==
    phase = "build" => \A k \in 2..Len(stack) : WellNested(stack[k].ev)

\* The matching loop never holds an empty name stack when it takes its
\* next token.
NamesNotEmpty == Matching => Top.names # <<>>

\* A step in which a call of from_events ends the build with value.
Raises(value) ==
    /\ phase = "build"
    /\ result = None
    /\ result' = value

\* C23: the tokens between a Start and its End that a recursive from_events
\* call is given are well-nested, so a recursive call ends the build with
\* NonDecodable or not at all; MismatchedEndTag and UnmatchedEndTag come
\* from the outermost call only, and UnmatchedEndTag never from the
\* matching loop, whose name stack is not empty when it takes a token.
C23_RecursiveCallsWellNested ==
    /\ [](NestedSlicesWellNested /\ NamesNotEmpty)
    /\ [][/\ (Len(stack) >= 2 /\ phase = "build" /\ result' # result)
                => Raises(NonDecodable)
          /\ \A value \in {result'} :
                (Raises(value) /\ value.tag \in {"MismatchedEndTag", "UnmatchedEndTag"})
                    => Len(stack) = 1
          /\ \A value \in {result'} :
                (Raises(value) /\ value.tag = "UnmatchedEndTag")
                    => Top.mode = "scan"]_vars

\* <a><a k="\xFF"></a></a>: the recursive call was given the inner Start
\* and End and stands at the Start, whose attribute value does not decode.
C23_Witness ==
    /\ phase = "build"
    /\ Len(stack) = 2
    /\ Scanning
    /\ Len(Top.ev) = 2
    /\ Top.i = 0
    /\ Cur.kind = "Start"
    /\ Decodable(Cur.data)
    /\ Undecodable(Cur)
    /\ Top.ev[2].kind = "End"

====
